---- MODULE Spec2Model ----
(***************************************************************************)
(* A model of the Prometheus text exposition encoder of src/src/lib.rs:    *)
(* MetricsEncoder, LabeledMetricsBuilder, LabeledHistogramBuilder,         *)
(* FormattedValue and validate_prometheus_name.                            *)
(*                                                                         *)
(* Text is a sequence of Unicode code points (97 is 'a', 34 is '"', 92 is  *)
(* '\', 10 is the newline).  An f64 is a record: a finite integral value,  *)
(* an infinity with its sign, or NaN.  The sink is the sequence of the     *)
(* lines written to it; a line records the pieces its format string puts   *)
(* together.                                                               *)
(***************************************************************************)
EXTENDS Integers, Sequences, FiniteSets, TLC

VARIABLES writer, now_millis, partial, builder, phase, trace, failures,
          name_in, name_out, labels_in, labels_out

vars == <<writer, now_millis, partial, builder, phase, trace, failures,
          name_in, name_out, labels_in, labels_out>>

encoder_vars == <<writer, now_millis, partial, builder, phase, trace, failures>>
name_vars == <<name_in, name_out>>
labels_vars == <<labels_in, labels_out>>

(***************************************************************************)
(* Bounds of the model.                                                    *)
(***************************************************************************)
\* encoding calls in one pass
MaxCalls == 3
\* failing writes of the sink in one pass
MaxFailures == 1
\* (bound, count) pairs of one histogram observation
MaxBuckets == 2
\* characters of a name handed to the validator
MaxNameLen == 3
\* characters of a label value handed to the label serializer
MaxValueLen == 3

(***************************************************************************)
(* Text literals of the source.                                            *)
(***************************************************************************)
Str_NaN == <<78, 97, 78>>
Str_PlusInf == <<43, 73, 110, 102>>
Str_MinusInf == <<45, 73, 110, 102>>
Str_inf == <<105, 110, 102>>
Str_neg_inf == <<45, 105, 110, 102>>
Str_le == <<108, 101>>

(***************************************************************************)
(* f64 values.                                                             *)
(***************************************************************************)
Fin(n) == [c |-> "fin", n |-> n]
INFINITY == [c |-> "inf", n |-> 1]
NEG_INFINITY == [c |-> "inf", n |-> -1]
NAN == [c |-> "nan", n |-> 0]

is_nan(v) == v.c = "nan"

\* total += v on f64: NaN is absorbing, opposite infinities give NaN.
f64_add(a, b) ==
    IF is_nan(a) \/ is_nan(b) THEN NAN
    ELSE IF a.c = "inf" /\ b.c = "inf" THEN (IF a.n = b.n THEN a ELSE NAN)
    ELSE IF a.c = "inf" THEN a
    ELSE IF b.c = "inf" THEN b
    ELSE Fin(a.n + b.n)

RECURSIVE Digits(_)
Digits(n) ==
    IF n < 10 THEN <<48 + n>> ELSE Digits(n \div 10) \o <<48 + (n % 10)>>

\* "{}" of an i64 (now_millis)
i64_to_string(n) == IF n < 0 THEN <<45>> \o Digits(-n) ELSE Digits(n)

\* "{}" of an f64, and f64::to_string: Rust's own spellings
f64_to_string(v) ==
    IF is_nan(v) THEN Str_NaN
    ELSE IF v.c = "inf" THEN (IF v.n > 0 THEN Str_inf ELSE Str_neg_inf)
    ELSE i64_to_string(v.n)

\* impl fmt::Display for FormattedValue
FormattedValue(value) ==
    IF is_nan(value) THEN Str_NaN
    ELSE IF value = INFINITY THEN Str_PlusInf
    ELSE IF value = NEG_INFINITY THEN Str_MinusInf
    ELSE f64_to_string(value)

(***************************************************************************)
(* validate_prometheus_name: works on the UTF-8 bytes of the name.         *)
(***************************************************************************)
\* UTF-8 of one code point below 0x800
utf8(cp) ==
    IF cp < 128 THEN <<cp>> ELSE <<192 + (cp \div 64), 128 + (cp % 64)>>

RECURSIVE as_bytes(_)
as_bytes(s) == IF s = <<>> THEN <<>> ELSE utf8(Head(s)) \o as_bytes(Tail(s))

is_ascii_alphabetic(b) == (b >= 65 /\ b <= 90) \/ (b >= 97 /\ b <= 122)
is_ascii_alphanumeric(b) == is_ascii_alphabetic(b) \/ (b >= 48 /\ b <= 57)

\* a plausible slip: the first byte checked like the others
validate_digit_first(name) ==
    IF name = <<>> THEN "panic"
    ELSE LET bytes == as_bytes(name) IN
         IF \A i \in 1..Len(bytes) :
                is_ascii_alphanumeric(bytes[i]) \/ bytes[i] = 95
         THEN "ok" ELSE "panic"

\* "ok" when the call returns, "panic" when it panics
validate_prometheus_name(name) ==
    IF name = <<>> THEN "panic"
    ELSE LET bytes == as_bytes(name) IN
         IF (~is_ascii_alphabetic(bytes[1]) /\ bytes[1] # 95)
            \/ ~(\A i \in 2..Len(bytes) :
                    is_ascii_alphanumeric(bytes[i]) \/ bytes[i] = 95)
         THEN "panic" ELSE "ok"

(***************************************************************************)
(* MetricsEncoder::encode_labels.                                          *)
(***************************************************************************)
\* a plausible slip: the newline arm of the match is missing
escape_char_no_newline(c) ==
    IF c = 92 THEN <<92, 92>>
    ELSE IF c = 34 THEN <<92, 34>>
    ELSE <<c>>

\* the match on one character of a label value
escape_char(c) ==
    IF c = 92 THEN <<92, 92>>
    ELSE IF c = 10 THEN <<92, 110>>
    ELSE IF c = 34 THEN <<92, 34>>
    ELSE <<c>>

RECURSIVE escape_value(_)
escape_value(v) ==
    IF v = <<>> THEN <<>> ELSE escape_char(Head(v)) \o escape_value(Tail(v))

\* The loop over the labels from index i on, buf being the text so far.  A
\* label is <<key, value>>.  The result is the String returned, or a panic
\* raised by the validation of a key.
RECURSIVE encode_labels_from(_, _, _)
encode_labels_from(labels, i, buf) ==
    IF i > Len(labels) THEN [panic |-> FALSE, buf |-> buf]
    ELSE IF validate_prometheus_name(labels[i][1]) = "panic"
         THEN [panic |-> TRUE, buf |-> <<>>]
         ELSE encode_labels_from(labels, i + 1,
                  buf \o (IF i > 1 THEN <<44>> ELSE <<>>)
                      \o labels[i][1] \o <<61, 34>>
                      \o escape_value(labels[i][2]) \o <<34>>)

encode_labels(labels) == encode_labels_from(labels, 1, <<>>)

(***************************************************************************)
(* The sink and the lines written to it.                                   *)
(*                                                                         *)
(* A line is what one writeln! puts together: kind "help" for              *)
(* "# HELP {} {}", "type" for "# TYPE {} {}" and "sample" for the data     *)
(* lines, whose format string gives the suffix after the name and says     *)
(* whether braces enclose the label text.  complete is FALSE for what a    *)
(* failed write left behind.                                               *)
(***************************************************************************)
header_line(kind, name, text) ==
    [kind |-> kind, name |-> name, suffix |-> "", braces |-> FALSE,
     labels |-> <<>>, value |-> <<>>, ts |-> <<>>, text |-> text,
     complete |-> TRUE]

sample_line(name, suffix, braces, labels, value, ts) ==
    [kind |-> "sample", name |-> name, suffix |-> suffix, braces |-> braces,
     labels |-> labels, value |-> value, ts |-> ts, text |-> "",
     complete |-> TRUE]

\* The writer W during one call: out is the content of the sink, attempts
\* counts the writes of the call, err is the io::Result of the latest one,
\* panic says that the call has panicked.  The sink fails the write number
\* failAt of the call (none when 0) and then keeps a fragment of the line
\* when it is a sink that takes a line piece by piece (partial).
open_writer(out, failAt, pieces) ==
    [out |-> out, attempts |-> 0, err |-> FALSE, panic |-> FALSE,
     failAt |-> failAt, partial |-> pieces]

\* MetricsEncoder { writer, now_millis }
MetricsEncoder_new(w, ts) == [writer |-> w, now_millis |-> ts]

\* writeln!(self.writer, ...)
writeln(self, line) ==
    LET w == self.writer
        n == w.attempts + 1
    IN  IF n = w.failAt
        THEN [self EXCEPT !.writer =
                 [w EXCEPT !.attempts = n, !.err = TRUE,
                           !.out = IF w.partial
                                   THEN Append(@, [line EXCEPT !.complete = FALSE])
                                   ELSE @]]
        ELSE [self EXCEPT !.writer =
                 [w EXCEPT !.attempts = n, !.err = FALSE, !.out = Append(@, line)]]

\* panic!(...): the call unwinds
panic(self) == [self EXCEPT !.writer.panic = TRUE]

\* the call has returned early: by the ? operator or by unwinding
returned(self) == self.writer.err \/ self.writer.panic

\* writeln! of a data line one of whose arguments is encode_labels(labels):
\* the arguments are evaluated, and may panic, before anything is written
writeln_labels(self, name, suffix, labels, value) ==
    LET lab == encode_labels(labels) IN
    IF lab.panic THEN panic(self)
    ELSE writeln(self, sample_line(name, suffix, TRUE, lab.buf, value,
                                   i64_to_string(self.now_millis)))

\* writeln! of a data line whose format string has no braces
writeln_plain(self, name, suffix, value) ==
    writeln(self, sample_line(name, suffix, FALSE, <<>>, value,
                              i64_to_string(self.now_millis)))

\* a plausible slip: the first writeln! without its ?
encode_header_no_try(self, name, help, typ) ==
    writeln(writeln(self, header_line("help", name, help)),
            header_line("type", name, typ))

\* MetricsEncoder::encode_header
encode_header(self, name, help, typ) ==
    LET s1 == writeln(self, header_line("help", name, help)) IN
    IF returned(s1) THEN s1
    ELSE writeln(s1, header_line("type", name, typ))

\* a plausible slip: the data line written before the header
encode_single_value_data_first(self, typ, name, value, help) ==
    IF validate_prometheus_name(name) = "panic" THEN panic(self)
    ELSE LET s1 == writeln_plain(self, name, "", FormattedValue(value)) IN
         IF returned(s1) THEN s1
         ELSE encode_header(s1, name, help, typ)

\* MetricsEncoder::encode_single_value
encode_single_value(self, typ, name, value, help) ==
    IF validate_prometheus_name(name) = "panic" THEN panic(self)
    ELSE LET s1 == encode_header(self, name, help, typ) IN
         IF returned(s1) THEN s1
         ELSE writeln_plain(s1, name, "", FormattedValue(value))

\* MetricsEncoder::encode_counter
encode_counter(self, name, value, help) ==
    encode_single_value(self, "counter", name, value, help)

\* MetricsEncoder::encode_gauge
encode_gauge(self, name, value, help) ==
    encode_single_value(self, "gauge", name, value, help)

\* a plausible slip: the header emitted before the name is validated
vec_header_first(self, name, help, typ) ==
    LET s1 == encode_header(self, name, help, typ) IN
    IF returned(s1) THEN s1
    ELSE IF validate_prometheus_name(name) = "panic" THEN panic(s1)
    ELSE s1

\* The body shared by counter_vec, gauge_vec and histogram_vec: validate
\* the name, emit the header; the builder is returned when this is Ok.
vec_header(self, name, help, typ) ==
    IF validate_prometheus_name(name) = "panic" THEN panic(self)
    ELSE encode_header(self, name, help, typ)

\* MetricsEncoder::counter_vec
counter_vec(self, name, help) == vec_header(self, name, help, "counter")

\* MetricsEncoder::gauge_vec
gauge_vec(self, name, help) == vec_header(self, name, help, "gauge")

\* MetricsEncoder::histogram_vec
histogram_vec(self, name, help) == vec_header(self, name, help, "histogram")

\* a plausible slip: value() emitting the header again
encode_value_with_labels_reheader(self, name, label_values, value) ==
    LET s1 == encode_header(self, name, "", "counter") IN
    IF returned(s1) THEN s1
    ELSE writeln_labels(s1, name, "", label_values, FormattedValue(value))

\* MetricsEncoder::encode_value_with_labels
encode_value_with_labels(self, name, label_values, value) ==
    writeln_labels(self, name, "", label_values, FormattedValue(value))

\* LabeledMetricsBuilder::value, on the encoder and the name of the builder
value(self, name, labels, v) ==
    encode_value_with_labels(self, name, labels, v)

(***************************************************************************)
(* LabeledHistogramBuilder::histogram.                                     *)
(***************************************************************************)
\* labels.iter().chain(once(&("le", bound)))
with_le(labels, bound) == labels \o << <<Str_le, bound>> >>

\* a plausible slip: the count of the bucket written instead of the total
bucket_step_not_cumulative(st, name, labels, pair) ==
    LET total == f64_add(st.total, pair[2]) IN
    IF pair[1] = INFINITY
    THEN [self |-> writeln_labels(st.self, name, "_bucket",
                       with_le(labels, Str_PlusInf), f64_to_string(pair[2])),
          total |-> total, saw_infinity |-> TRUE]
    ELSE [self |-> writeln_labels(st.self, name, "_bucket",
                       with_le(labels, f64_to_string(pair[1])),
                       f64_to_string(pair[2])),
          total |-> total, saw_infinity |-> st.saw_infinity]

\* a plausible slip: saw_infinity never set
bucket_step_never_saw(st, name, labels, pair) ==
    LET total == f64_add(st.total, pair[2]) IN
    IF pair[1] = INFINITY
    THEN [self |-> writeln_labels(st.self, name, "_bucket",
                       with_le(labels, Str_PlusInf), f64_to_string(total)),
          total |-> total, saw_infinity |-> st.saw_infinity]
    ELSE [self |-> writeln_labels(st.self, name, "_bucket",
                       with_le(labels, f64_to_string(pair[1])),
                       f64_to_string(total)),
          total |-> total, saw_infinity |-> st.saw_infinity]

\* One turn of the loop over the buckets, pair being <<bucket, v>> and st
\* the encoder with the locals total and saw_infinity.
bucket_step(st, name, labels, pair) ==
    LET total == f64_add(st.total, pair[2]) IN
    IF pair[1] = INFINITY
    THEN [self |-> writeln_labels(st.self, name, "_bucket",
                       with_le(labels, Str_PlusInf), f64_to_string(total)),
          total |-> total, saw_infinity |-> TRUE]
    ELSE [self |-> writeln_labels(st.self, name, "_bucket",
                       with_le(labels, f64_to_string(pair[1])),
                       f64_to_string(total)),
          total |-> total, saw_infinity |-> st.saw_infinity]

\* the loop over the buckets from index i on; a failed write returns
RECURSIVE bucket_loop(_, _, _, _, _)
bucket_loop(st, name, labels, buckets, i) ==
    IF i > Len(buckets) \/ returned(st.self) THEN st
    ELSE bucket_loop(bucket_step(st, name, labels, buckets[i]),
                     name, labels, buckets, i + 1)

\* the bucket line written after the loop when no bound was infinite
terminal_bucket(st, name, labels) ==
    IF returned(st.self) \/ st.saw_infinity THEN st.self
    ELSE writeln_labels(st.self, name, "_bucket",
                        with_le(labels, Str_PlusInf), f64_to_string(st.total))

\* a plausible slip: _count taken from the sum argument
summary_count_from_sum(self, name, labels, sum, total) ==
    IF returned(self) THEN self
    ELSE IF labels = <<>>
    THEN LET s1 == writeln_plain(self, name, "_sum", FormattedValue(sum)) IN
         IF returned(s1) THEN s1
         ELSE writeln_plain(s1, name, "_count", FormattedValue(sum))
    ELSE LET s1 == writeln_labels(self, name, "_sum", labels,
                                  FormattedValue(sum)) IN
         IF returned(s1) THEN s1
         ELSE writeln_labels(s1, name, "_count", labels, FormattedValue(sum))

\* a plausible slip: no branch for the empty label set
summary_always_braces(self, name, labels, sum, total) ==
    IF returned(self) THEN self
    ELSE LET s1 == writeln_labels(self, name, "_sum", labels,
                                  FormattedValue(sum)) IN
         IF returned(s1) THEN s1
         ELSE writeln_labels(s1, name, "_count", labels, FormattedValue(total))

\* the _sum and _count lines
summary(self, name, labels, sum, total) ==
    IF returned(self) THEN self
    ELSE IF labels = <<>>
    THEN LET s1 == writeln_plain(self, name, "_sum", FormattedValue(sum)) IN
         IF returned(s1) THEN s1
         ELSE writeln_plain(s1, name, "_count", FormattedValue(total))
    ELSE LET s1 == writeln_labels(self, name, "_sum", labels,
                                  FormattedValue(sum)) IN
         IF returned(s1) THEN s1
         ELSE writeln_labels(s1, name, "_count", labels, FormattedValue(total))

\* LabeledHistogramBuilder::histogram, on the encoder and the name of the
\* builder
histogram(self, name, labels, buckets, sum) ==
    IF \E i \in 1..Len(labels) : validate_prometheus_name(labels[i][1]) = "panic"
    THEN panic(self)
    ELSE LET st == bucket_loop([self |-> self, total |-> Fin(0),
                                saw_infinity |-> FALSE],
                               name, labels, buckets, 1)
         IN  summary(terminal_bucket(st, name, labels), name, labels, sum,
                     st.total)

\* MetricsEncoder::encode_histogram
encode_histogram(self, name, buckets, sum, help) ==
    LET s1 == histogram_vec(self, name, help) IN
    IF returned(s1) THEN s1
    ELSE histogram(s1, name, <<>>, buckets, sum)

(***************************************************************************)
(* The inputs the callers draw from.                                       *)
(***************************************************************************)
Seqs(S, n) == UNION {[1..k -> S] : k \in 0..n}

Name_a == <<97>>
Name_2xx == <<50, 120, 120>>
ValidNames == {Name_a}
Names == ValidNames \cup {Name_2xx}
HelpText == "help"
TimeStamps == {1000}
Values == {Fin(3)}
Sums == {Fin(7)}
HistSums == {Fin(7), NAN}

\* label sets: none, one label whose value holds a quote, and a set whose
\* second key is malformed
LabelSets ==
    { <<>>,
      << <<Name_a, <<34, 120>> >> >>,
      << <<Name_a, <<120>> >>, <<Name_2xx, <<121>> >> >> }

\* the bucket sequences of the encoding pass
PassBuckets == { << <<Fin(1), Fin(2)>> >> }

\* the bucket sequences of the histogram observations: every order of the
\* bounds, an infinite bound at every position, counts of every kind
Bounds == {Fin(1), Fin(5), INFINITY}
Counts == {Fin(1), Fin(-1), INFINITY, NAN}
BucketSeqs == Seqs(Bounds \X Counts, MaxBuckets)
HistLabelSets == { <<>>, << <<Name_a, <<34, 120>> >> >> }

\* What the sink does during one call: the number of the write it fails,
\* none when 0.
NoFail == 0
Fails(maxWrites) ==
    {NoFail} \cup (IF failures < MaxFailures THEN 1..maxWrites ELSE {})

(***************************************************************************)
(* The encoding pass: one encoder, its sink, the builder borrowing it.     *)
(***************************************************************************)
NoBuilder == [kind |-> "none", name |-> <<>>]

Init ==
    /\ writer = <<>>
    /\ now_millis \in TimeStamps
    /\ partial \in BOOLEAN
    /\ builder = NoBuilder
    /\ phase = "encoding"
    /\ trace = <<>>
    /\ failures = 0
    /\ name_in = <<>>
    /\ name_out = "none"
    /\ labels_in = <<>>
    /\ labels_out = [state |-> "none", buf |-> <<>>]

\* the encoder as a call finds it
Self(fail) == MetricsEncoder_new(open_writer(writer, fail, partial), now_millis)

Result(s) ==
    IF s.writer.panic THEN "panic" ELSE IF s.writer.err THEN "err" ELSE "ok"

\* the encoder may be called: it is neither consumed nor unwound
CanCall == phase = "encoding" /\ Len(trace) < MaxCalls

\* What a call leaves: the sink, the record of the call in the trace, the
\* count of the failed writes.
Return(op, name, labels, buckets, v, fail, s) ==
    /\ writer' = s.writer.out
    /\ trace' = Append(trace,
           [op |-> op, name |-> name, labels |-> labels, buckets |-> buckets,
            value |-> v, res |-> Result(s),
            pre |-> Len(writer), post |-> Len(s.writer.out),
            attempts |-> s.writer.attempts,
            failed |-> (fail > 0 /\ s.writer.attempts >= fail),
            failedAt |-> IF fail > 0 /\ s.writer.attempts >= fail
                         THEN fail ELSE 0])
    /\ failures' = failures
                   + (IF fail > 0 /\ s.writer.attempts >= fail THEN 1 ELSE 0)
    /\ phase' = IF s.writer.panic THEN "panicked" ELSE phase
    /\ UNCHANGED <<now_millis, partial, name_vars, labels_vars>>

encode_counter_call(name, v, fail) ==
    /\ CanCall /\ builder.kind = "none"
    /\ Return("encode_counter", name, <<>>, <<>>, v, fail,
              encode_counter(Self(fail), name, v, HelpText))
    /\ UNCHANGED builder

encode_gauge_call(name, v, fail) ==
    /\ CanCall /\ builder.kind = "none"
    /\ Return("encode_gauge", name, <<>>, <<>>, v, fail,
              encode_gauge(Self(fail), name, v, HelpText))
    /\ UNCHANGED builder

encode_single_value_call(typ, name, v, fail) ==
    /\ CanCall /\ builder.kind = "none"
    /\ Return("encode_single_value", name, <<>>, <<>>, v, fail,
              encode_single_value(Self(fail), typ, name, v, HelpText))
    /\ UNCHANGED builder

counter_vec_call(name, fail) ==
    /\ CanCall /\ builder.kind = "none"
    /\ LET s == counter_vec(Self(fail), name, HelpText) IN
       /\ Return("counter_vec", name, <<>>, <<>>, Fin(0), fail, s)
       /\ builder' = IF Result(s) = "ok"
                     THEN [kind |-> "metrics", name |-> name] ELSE NoBuilder

gauge_vec_call(name, fail) ==
    /\ CanCall /\ builder.kind = "none"
    /\ LET s == gauge_vec(Self(fail), name, HelpText) IN
       /\ Return("gauge_vec", name, <<>>, <<>>, Fin(0), fail, s)
       /\ builder' = IF Result(s) = "ok"
                     THEN [kind |-> "metrics", name |-> name] ELSE NoBuilder

histogram_vec_call(name, fail) ==
    /\ CanCall /\ builder.kind = "none"
    /\ LET s == histogram_vec(Self(fail), name, HelpText) IN
       /\ Return("histogram_vec", name, <<>>, <<>>, Fin(0), fail, s)
       /\ builder' = IF Result(s) = "ok"
                     THEN [kind |-> "histogram", name |-> name] ELSE NoBuilder

encode_histogram_call(name, buckets, sum, fail) ==
    /\ CanCall /\ builder.kind = "none"
    /\ Return("encode_histogram", name, <<>>, buckets, sum, fail,
              encode_histogram(Self(fail), name, buckets, sum, HelpText))
    /\ UNCHANGED builder

\* value(self, ...) consumes the builder and returns it in Ok only
value_call(labels, v, fail) ==
    /\ CanCall /\ builder.kind = "metrics"
    /\ LET s == value(Self(fail), builder.name, labels, v) IN
       /\ Return("value", builder.name, labels, <<>>, v, fail, s)
       /\ builder' = IF Result(s) = "ok" THEN builder ELSE NoBuilder

\* histogram(self, ...) consumes the builder and returns it in Ok only
histogram_call(labels, buckets, sum, fail) ==
    /\ CanCall /\ builder.kind = "histogram"
    /\ LET s == histogram(Self(fail), builder.name, labels, buckets, sum) IN
       /\ Return("histogram", builder.name, labels, buckets, sum, fail, s)
       /\ builder' = IF Result(s) = "ok" THEN builder ELSE NoBuilder

EncodeCounter ==
    \E name \in Names, v \in Values, fail \in Fails(3) :
        encode_counter_call(name, v, fail)

EncodeGauge ==
    \E name \in Names, v \in Values, fail \in Fails(3) :
        encode_gauge_call(name, v, fail)

EncodeSingleValue ==
    \E name \in Names, v \in Values, fail \in Fails(3) :
        encode_single_value_call("untyped", name, v, fail)

CounterVec == \E name \in Names, fail \in Fails(2) : counter_vec_call(name, fail)

GaugeVec == \E name \in Names, fail \in Fails(2) : gauge_vec_call(name, fail)

HistogramVec ==
    \E name \in Names, fail \in Fails(2) : histogram_vec_call(name, fail)

EncodeHistogram ==
    \E name \in Names, buckets \in PassBuckets, sum \in Sums :
        \E fail \in Fails(Len(buckets) + 5) :
            encode_histogram_call(name, buckets, sum, fail)

Value ==
    \E labels \in LabelSets, v \in Values, fail \in Fails(1) :
        value_call(labels, v, fail)

Histogram ==
    \E labels \in LabelSets, buckets \in PassBuckets, sum \in Sums :
        \E fail \in Fails(Len(buckets) + 3) :
            histogram_call(labels, buckets, sum, fail)

\* the builder goes out of scope and the borrow of the encoder ends
DropBuilder ==
    /\ phase = "encoding" /\ builder.kind # "none"
    /\ builder' = NoBuilder
    /\ UNCHANGED <<writer, now_millis, partial, phase, trace, failures,
                   name_vars, labels_vars>>

\* MetricsEncoder::into_inner
IntoInner ==
    /\ phase = "encoding" /\ builder.kind = "none"
    /\ phase' = "consumed"
    /\ UNCHANGED <<writer, now_millis, partial, builder, trace, failures,
                   name_vars, labels_vars>>

Next ==
    \/ EncodeCounter \/ EncodeGauge \/ EncodeSingleValue
    \/ CounterVec \/ GaugeVec \/ HistogramVec \/ EncodeHistogram
    \/ Value \/ Histogram \/ DropBuilder \/ IntoInner

Spec == Init /\ [][Next]_vars

(***************************************************************************)
(* Histogram observations: one encoder, histogram_vec or encode_histogram  *)
(* on a sink that does not fail, and one observation drawn from            *)
(* BucketSeqs.                                                             *)
(***************************************************************************)
NoObservation ==
    \A i \in 1..Len(trace) : trace[i].op \notin {"histogram", "encode_histogram"}

OpenHistogram == \E name \in ValidNames : histogram_vec_call(name, NoFail)

Observe ==
    /\ NoObservation
    /\ \E labels \in HistLabelSets, buckets \in BucketSeqs, sum \in HistSums :
           histogram_call(labels, buckets, sum, NoFail)

ObserveUnlabeled ==
    /\ NoObservation
    /\ \E name \in ValidNames, buckets \in BucketSeqs, sum \in HistSums :
           encode_histogram_call(name, buckets, sum, NoFail)

NextHist == OpenHistogram \/ Observe \/ ObserveUnlabeled \/ DropBuilder \/ IntoInner

InitHist ==
    /\ writer = <<>>
    /\ now_millis \in TimeStamps
    /\ partial = FALSE
    /\ builder = NoBuilder
    /\ phase = "encoding"
    /\ trace = <<>>
    /\ failures = 0
    /\ name_in = <<>>
    /\ name_out = "none"
    /\ labels_in = <<>>
    /\ labels_out = [state |-> "none", buf |-> <<>>]

SpecHist == InitHist /\ [][NextHist]_vars

(***************************************************************************)
(* validate_prometheus_name on every name of at most MaxNameLen            *)
(* characters: letters, digits, the underscore, the characters next to     *)
(* their ranges, a space and a non-ASCII letter.                           *)
(***************************************************************************)
NameChars == {97, 122, 65, 90, 95, 48, 57, 32, 233, 64, 91, 96, 123, 47, 58}

InitValidate ==
    /\ writer = <<>>
    /\ now_millis = 0
    /\ partial = FALSE
    /\ builder = NoBuilder
    /\ phase = "encoding"
    /\ trace = <<>>
    /\ failures = 0
    /\ name_in \in Seqs(NameChars, MaxNameLen)
    /\ name_out = "none"
    /\ labels_in = <<>>
    /\ labels_out = [state |-> "none", buf |-> <<>>]

Validate ==
    /\ name_out = "none"
    /\ name_out' = validate_prometheus_name(name_in)
    /\ UNCHANGED <<encoder_vars, name_in, labels_vars>>

SpecValidate == InitValidate /\ [][Validate]_vars

(***************************************************************************)
(* encode_labels on label sets whose values are drawn from backslashes,    *)
(* quotes, newlines, the letter n and commas.                              *)
(***************************************************************************)
ValueChars == {92, 34, 10, 110, 44}
LabelValues == Seqs(ValueChars, MaxValueLen)
SecondValues == {<<>>, <<34>>, <<92, 110>>}

LabelInputs ==
    { <<>> }
    \cup { << <<k, v>> >> : k \in {Name_a, Name_2xx}, v \in LabelValues }
    \cup { << <<Name_a, v>>, <<Str_le, u>> >> : v \in LabelValues, u \in SecondValues }

InitLabels ==
    /\ writer = <<>>
    /\ now_millis = 0
    /\ partial = FALSE
    /\ builder = NoBuilder
    /\ phase = "encoding"
    /\ trace = <<>>
    /\ failures = 0
    /\ name_in = <<>>
    /\ name_out = "none"
    /\ labels_in \in LabelInputs
    /\ labels_out = [state |-> "none", buf |-> <<>>]

EncodeLabels ==
    /\ labels_out.state = "none"
    /\ LET r == encode_labels(labels_in) IN
       labels_out' = [state |-> IF r.panic THEN "panic" ELSE "ok", buf |-> r.buf]
    /\ UNCHANGED <<encoder_vars, name_vars, labels_in>>

SpecLabels == InitLabels /\ [][EncodeLabels]_vars

(***************************************************************************)
(* Reading the output back, as a scraper does.                             *)
(***************************************************************************)
IsDigits(t) == t # <<>> /\ \A i \in 1..Len(t) : t[i] \in 48..57

RECURSIVE digits_value(_)
digits_value(t) ==
    IF t = <<>> THEN 0
    ELSE 10 * digits_value(SubSeq(t, 1, Len(t) - 1)) + (t[Len(t)] - 48)

\* Go's ParseFloat on the spellings a sample value can have
parse_float(t) ==
    IF t = Str_NaN THEN NAN
    ELSE IF t \in {Str_PlusInf, Str_inf} THEN INFINITY
    ELSE IF t \in {Str_MinusInf, Str_neg_inf} THEN NEG_INFINITY
    ELSE IF IsDigits(t) THEN Fin(digits_value(t))
    ELSE IF Len(t) > 1 /\ t[1] = 45 /\ IsDigits(Tail(t))
         THEN Fin(0 - digits_value(Tail(t)))
    ELSE [c |-> "bad", n |-> 0]

\* the index of the first '=' at or after i, 0 when there is none
RECURSIVE find_eq(_, _)
find_eq(t, i) ==
    IF i > Len(t) THEN 0 ELSE IF t[i] = 61 THEN i ELSE find_eq(t, i + 1)

\* the index of the first '"' at or after i that no backslash escapes
RECURSIVE find_quote(_, _)
find_quote(t, i) ==
    IF i > Len(t) THEN 0
    ELSE IF t[i] = 92 THEN find_quote(t, i + 2)
    ELSE IF t[i] = 34 THEN i
    ELSE find_quote(t, i + 1)

BadLabels == [ok |-> FALSE, labels |-> <<>>]

\* the labels k="v",... of a label text from index i on, v still escaped
RECURSIVE parse_labels_from(_, _)
parse_labels_from(t, i) ==
    LET e == find_eq(t, i) IN
    IF e = 0 \/ e = i \/ e + 1 > Len(t) THEN BadLabels
    ELSE IF t[e + 1] # 34 THEN BadLabels
    ELSE LET q == find_quote(t, e + 2) IN
         IF q = 0 THEN BadLabels
         ELSE LET this == [k |-> SubSeq(t, i, e - 1), v |-> SubSeq(t, e + 2, q - 1)] IN
              IF q = Len(t) THEN [ok |-> TRUE, labels |-> <<this>>]
              ELSE IF t[q + 1] # 44 \/ q + 1 = Len(t) THEN BadLabels
              ELSE LET rest == parse_labels_from(t, q + 2) IN
                   [ok |-> rest.ok, labels |-> <<this>> \o rest.labels]

parse_labels(t) ==
    IF t = <<>> THEN [ok |-> TRUE, labels |-> <<>>] ELSE parse_labels_from(t, 1)

\* the un-escaping of the exposition format
RECURSIVE unescape(_)
unescape(t) ==
    IF t = <<>> THEN <<>>
    ELSE IF t[1] = 92 /\ Len(t) >= 2
         THEN (IF t[2] = 110 THEN <<10>>
               ELSE IF t[2] \in {92, 34} THEN <<t[2]>>
               ELSE <<92, t[2]>>) \o unescape(SubSeq(t, 3, Len(t)))
    ELSE <<t[1]>> \o unescape(Tail(t))

\* no '"' of t is left without a backslash escaping it
NoBareQuote(t) == find_quote(t, 1) = 0

NoRawNewline(t) == \A i \in 1..Len(t) : t[i] # 10

\* the value of the le label of a bucket line: its last label
LeOf(line) ==
    LET p == parse_labels(line.labels) IN
    IF p.ok /\ Len(p.labels) > 0 /\ p.labels[Len(p.labels)].k = Str_le
    THEN unescape(p.labels[Len(p.labels)].v)
    ELSE <<>>

\* the lines the call number i of the trace appended
CallLines(i) ==
    IF trace[i].post <= Len(writer) /\ trace[i].pre <= trace[i].post
    THEN SubSeq(writer, trace[i].pre + 1, trace[i].post) ELSE <<>>

IsBucket(l) == l.kind = "sample" /\ l.suffix = "_bucket"
BucketLines(i) == SelectSeq(CallLines(i), IsBucket)
IsSumLine(l) == l.kind = "sample" /\ l.suffix = "_sum"
SumLines(i) == SelectSeq(CallLines(i), IsSumLine)
IsCountLine(l) == l.kind = "sample" /\ l.suffix = "_count"
CountLines(i) == SelectSeq(CallLines(i), IsCountLine)

\* the successful histogram observations of the trace
Observations ==
    {i \in 1..Len(trace) :
        trace[i].op \in {"histogram", "encode_histogram"} /\ trace[i].res = "ok"}

\* the sum of the first k counts of a bucket sequence
RECURSIVE PrefixSum(_, _)
PrefixSum(buckets, k) ==
    IF k = 0 THEN Fin(0) ELSE f64_add(PrefixSum(buckets, k - 1), buckets[k][2])

\* positive infinity is a bound of the last pair or of none
InfOnlyLast(buckets) ==
    \A j \in 1..Len(buckets) : buckets[j][1] = INFINITY => j = Len(buckets)

PlusInfLines(bl) == {j \in 1..Len(bl) : LeOf(bl[j]) = Str_PlusInf}

TerminalInf(i) ==
    LET bl == BucketLines(i)
        cl == CountLines(i)
    IN  /\ Cardinality(PlusInfLines(bl)) = 1
        /\ Len(bl) > 0 /\ LeOf(bl[Len(bl)]) = Str_PlusInf
        /\ Len(cl) = 1
        /\ parse_float(bl[Len(bl)].value) = parse_float(cl[1].value)

(***************************************************************************)
(* The claims.                                                             *)
(***************************************************************************)

\* C1 as stated: for every bucket sequence, an infinite bound at any
\* position included, a successful histogram() emits exactly one le="+Inf"
\* bucket line, it is the last bucket line, and its count is the value of
\* the _count line.
C1_AnySequence == \A i \in Observations : TerminalInf(i)

\* C1 (amended): when positive infinity is the bound of no pair, or of the
\* last pair only, a successful histogram() emits exactly one le="+Inf"
\* bucket line, it is the last bucket line, and its count reads as the same
\* number as the value of the _count line.
C1_TerminalInf ==
    \A i \in Observations : InfOnlyLast(trace[i].buckets) => TerminalInf(i)

C1_Witness ==
    \E i \in Observations :
        /\ Len(trace[i].buckets) = 2
        /\ trace[i].buckets[1][1] = Fin(5)
        /\ trace[i].buckets[2][1] = INFINITY
        /\ trace[i].labels # <<>>

\* C2: after a successful histogram() the count of the last bucket line is
\* the sum of all the per-bucket counts supplied and is the value of the
\* _count line, whatever the sum argument; the _sum line carries the sum
\* argument.
C2_CountIsSumOfCounts ==
    \A i \in Observations :
        LET bl == BucketLines(i)
            sl == SumLines(i)
            cl == CountLines(i)
            all == PrefixSum(trace[i].buckets, Len(trace[i].buckets))
        IN  /\ Len(bl) > 0 /\ Len(sl) = 1 /\ Len(cl) = 1
            /\ parse_float(bl[Len(bl)].value) = all
            /\ parse_float(cl[1].value) = all
            /\ parse_float(sl[1].value) = trace[i].value

C2_Witness ==
    \E i \in Observations :
        /\ Len(trace[i].buckets) = 2
        /\ trace[i].buckets[1][1] = INFINITY
        /\ trace[i].buckets[2][2] = Fin(-1)
        /\ trace[i].value = NAN

\* C3: validate_prometheus_name returns for exactly the names matching
\* ^[A-Za-z_][A-Za-z0-9_]*$ and panics for every other one.
Letters == (65..90) \cup (97..122)
MatchesPattern(name) ==
    /\ Len(name) >= 1
    /\ name[1] \in Letters \cup {95}
    /\ \A i \in 2..Len(name) : name[i] \in Letters \cup (48..57) \cup {95}

C3_ValidatorMatchesPattern ==
    name_out # "none" => (name_out = "ok" <=> MatchesPattern(name_in))

C3_Witness ==
    /\ name_out = "panic"
    /\ Len(name_in) = 3 /\ name_in[1] = 97 /\ name_in[2] = 233 /\ name_in[3] = 95

\* C4: un-escaping the text encode_labels writes between the quotes of a
\* label gives back the value of the label, and the text written holds no
\* raw newline and no double quote without a backslash before it.
C4_EscapeRoundTrip ==
    labels_out.state = "ok" =>
        LET p == parse_labels(labels_out.buf) IN
        /\ p.ok
        /\ Len(p.labels) = Len(labels_in)
        /\ NoRawNewline(labels_out.buf)
        /\ \A i \in 1..Len(labels_in) :
              /\ p.labels[i].k = labels_in[i][1]
              /\ unescape(p.labels[i].v) = labels_in[i][2]
              /\ NoBareQuote(p.labels[i].v)

C4_Witness ==
    /\ labels_out.state = "ok"
    /\ Len(labels_in) = 2
    /\ labels_in[1][2] = <<92, 10, 34>>
    /\ labels_in[2][2] = <<92, 110>>

\* C5: a call that panics on a malformed metric name or label key leaves
\* the sink exactly as it found it.
C5_PanicLeavesSink ==
    [][(Len(trace') = Len(trace) + 1 /\ trace'[Len(trace')].res = "panic")
          => writer' = writer]_vars

C5_Witness ==
    /\ Len(trace) = 2
    /\ trace[2].op = "histogram" /\ trace[2].res = "panic"
    /\ Len(trace[2].labels) = 2
    /\ Len(writer) = 2

\* C6: a call one of whose writes fails makes no write after it, returns
\* the error, and leaves in the sink the lines written before the failure.
C6_FailureStopsCall ==
    \A i \in 1..Len(trace) :
        /\ trace[i].res = "err" <=> trace[i].failed
        /\ trace[i].failed =>
              /\ trace[i].attempts = trace[i].failedAt
              /\ trace[i].post - trace[i].pre
                    = trace[i].failedAt - 1 + (IF partial THEN 1 ELSE 0)
              /\ trace[i].post <= Len(writer)
              /\ \A j \in (trace[i].pre + 1)..(trace[i].pre + trace[i].failedAt - 1) :
                    writer[j].complete
              /\ partial => ~writer[trace[i].post].complete

C6_Witness ==
    /\ partial
    /\ \E i \in 1..Len(trace) :
          /\ trace[i].op = "histogram" /\ trace[i].failed
          /\ trace[i].failedAt = 2 /\ trace[i].labels # <<>>

\* C7: counter_vec or gauge_vec on a valid name followed by n successful
\* value() calls appends the HELP line, the TYPE line, then one data line
\* for each value() call, in the order of the calls.
ChainOk(i, j) ==
    \A m \in (i + 1)..j : trace[m].op = "value" /\ trace[m].res = "ok"

IsDataLineOf(l, name, labels, v) ==
    LET p == parse_labels(l.labels) IN
    /\ l.kind = "sample" /\ l.complete /\ l.suffix = "" /\ l.name = name
    /\ p.ok /\ Len(p.labels) = Len(labels)
    /\ \A n \in 1..Len(labels) :
          p.labels[n].k = labels[n][1] /\ unescape(p.labels[n].v) = labels[n][2]
    /\ parse_float(l.value) = v

C7_OneLinePerValue ==
    \A i \in 1..Len(trace) :
        (trace[i].op \in {"counter_vec", "gauge_vec"} /\ trace[i].res = "ok") =>
            /\ trace[i].post = trace[i].pre + 2
            /\ trace[i].post <= Len(writer)
            /\ writer[trace[i].pre + 1] = header_line("help", trace[i].name, HelpText)
            /\ writer[trace[i].pre + 2] =
                  header_line("type", trace[i].name,
                      IF trace[i].op = "counter_vec" THEN "counter" ELSE "gauge")
            /\ \A j \in (i + 1)..Len(trace) :
                  ChainOk(i, j) =>
                      /\ trace[j].pre = trace[i].post + (j - i - 1)
                      /\ trace[j].post = trace[j].pre + 1
                      /\ trace[j].post <= Len(writer)
                      /\ IsDataLineOf(writer[trace[j].post], trace[i].name,
                                      trace[j].labels, trace[j].value)

C7_Witness ==
    /\ Len(trace) = 3
    /\ trace[1].op = "gauge_vec" /\ ChainOk(1, 3)
    /\ trace[2].labels # <<>> /\ trace[3].labels = <<>>

\* C8: every call only appends to the sink, and every data line of the
\* sink comes after the HELP line and the TYPE line of its metric.
IsPrefix(a, b) == Len(a) <= Len(b) /\ SubSeq(b, 1, Len(a)) = a

HeaderBeforeData(w) ==
    \A i \in 1..Len(w) :
        w[i].kind = "sample" =>
            \E h \in 1..(i - 1), t \in 1..(i - 1) :
                /\ h < t
                /\ w[h].kind = "help" /\ w[h].complete /\ w[h].name = w[i].name
                /\ w[t].kind = "type" /\ w[t].complete /\ w[t].name = w[i].name

C8_AppendOnly == [][IsPrefix(writer, writer') /\ HeaderBeforeData(writer')]_vars

C8_Witness ==
    /\ phase = "consumed"
    /\ Len(trace) = 3
    /\ trace[1].op = "encode_counter" /\ trace[1].res = "ok"
    /\ trace[2].op = "histogram_vec" /\ trace[2].res = "ok"
    /\ trace[3].op = "histogram" /\ trace[3].res = "ok"
    /\ Len(writer) = 9

\* C9 as stated: with an empty label set no line histogram() emits carries
\* braces, the bucket lines included.
C9_NoBracesAnywhere ==
    \A i \in Observations :
        trace[i].labels = <<>> =>
            \A j \in 1..Len(CallLines(i)) : ~CallLines(i)[j].braces

\* C9 (amended): with an empty label set the _sum line and the _count line
\* carry no braces, and every bucket line carries braces that enclose the
\* le label and nothing else.
C9_BracesOnlyOnBuckets ==
    \A i \in Observations :
        trace[i].labels = <<>> =>
            /\ Len(SumLines(i)) = 1 /\ Len(CountLines(i)) = 1
            /\ ~SumLines(i)[1].braces /\ SumLines(i)[1].labels = <<>>
            /\ ~CountLines(i)[1].braces /\ CountLines(i)[1].labels = <<>>
            /\ \A j \in 1..Len(BucketLines(i)) :
                  LET l == BucketLines(i)[j]
                      p == parse_labels(l.labels)
                  IN  l.braces /\ p.ok /\ Len(p.labels) = 1
                      /\ p.labels[1].k = Str_le

C9_Witness ==
    \E i \in Observations :
        /\ trace[i].op = "histogram" /\ trace[i].labels = <<>>
        /\ Len(trace[i].buckets) = 2

\* C10: histogram() emits one bucket line for each pair supplied, in the
\* order supplied: line i carries bound i as its le label (+Inf for
\* positive infinity) and the sum of the first i counts, so the counts
\* emitted never decrease when no supplied count is negative.
FloatLeq(a, b) ==
    /\ a.c \in {"fin", "inf"} /\ b.c \in {"fin", "inf"}
    /\ \/ a = b
       \/ a = NEG_INFINITY
       \/ b = INFINITY
       \/ a.c = "fin" /\ b.c = "fin" /\ a.n <= b.n

NonNegative(v) == (v.c = "fin" /\ v.n >= 0) \/ v = INFINITY

C10_BucketLinesInOrder ==
    \A i \in Observations :
        LET b == trace[i].buckets
            bl == BucketLines(i)
        IN  /\ Len(bl) \in {Len(b), Len(b) + 1}
            /\ \A j \in 1..Len(b) :
                  /\ IF b[j][1] = INFINITY THEN LeOf(bl[j]) = Str_PlusInf
                     ELSE parse_float(LeOf(bl[j])) = b[j][1]
                  /\ parse_float(bl[j].value) = PrefixSum(b, j)
            /\ (\A j \in 1..Len(b) : NonNegative(b[j][2])) =>
                  \A j \in 1..(Len(bl) - 1) :
                      FloatLeq(parse_float(bl[j].value), parse_float(bl[j + 1].value))

C10_Witness ==
    \E i \in Observations :
        /\ Len(trace[i].buckets) = 2
        /\ trace[i].buckets[1] = <<Fin(5), INFINITY>>
        /\ trace[i].buckets[2] = <<Fin(1), Fin(1)>>

====
